---- MODULE Spec2Model ----
(***************************************************************************)
(* A model of tabular.py: parse() and parse_lines(), the inference of      *)
(* column spans from the header and the data lines of an ASCII table, the  *)
(* de-duplication of the header keys and the extraction of the records.    *)
(*                                                                         *)
(* A Python str is a sequence of one-character strings; a Python list is   *)
(* a sequence; positions are 0-based as in the source, so the character    *)
(* line[k] of the source is line[k + 1] here.                              *)
(***************************************************************************)
EXTENDS Integers, Sequences, FiniteSets, TLC

VARIABLES
    call,               \* the call: [fn, skip]
    lines,              \* the local variable lines of parse / parse_lines
    divider,
    left_boundaries,
    right_boundaries,
    lb_checked,
    rb_checked,
    valid_lb,
    valid_rb,
    position,
    columns,            \* the spans built by the merge loop (lines 102-116)
    ncolumns,           \* the spans after the splitter (columns from line 153 on)
    headers,
    newkeys,
    bumpable,
    bumps,              \* what is left of the iteration over list(bumpable)
    newheaders,
    row,                \* how many data lines the last loop has consumed
    data,
    pc,
    err

vars == <<call, lines, divider, left_boundaries, right_boundaries, lb_checked,
          rb_checked, valid_lb, valid_rb, position, columns, ncolumns, headers,
          newkeys, bumpable, bumps, newheaders, row, data, pc, err>>

(***************************************************************************)
(* Bounds of the inputs.                                                   *)
(***************************************************************************)
\* longest line of the tables drawn over three characters
MaxLen == 3
\* longest line of the header-and-one-row tables drawn over two characters
MaxLenWide == 6
\* most columns of the left-justified tables built from cells
MaxCols == 4
\* width of a column of the left-justified tables
ColWidth == 5
\* largest --skip
MaxSkip == 1

(***************************************************************************)
(* Python values and string operations.                                    *)
(***************************************************************************)
\* None, the end of the last span
None == -1

Whitespace == {" ", "\t", "\n"}

Min(a, b) == IF a < b THEN a ELSE b

\* s[a:b] for a >= 0 and b >= 0 or b None
Slice(s, a, b) ==
    LET e == IF b = None THEN Len(s) ELSE Min(b, Len(s))
    IN  IF a < e THEN SubSeq(s, a + 1, e) ELSE <<>>

RECURSIVE LStrip(_)
LStrip(s) ==
    IF s # <<>> /\ Head(s) \in Whitespace THEN LStrip(Tail(s)) ELSE s

RECURSIVE RStrip(_)
RStrip(s) ==
    IF s # <<>> /\ s[Len(s)] \in Whitespace
    THEN RStrip(SubSeq(s, 1, Len(s) - 1))
    ELSE s

\* s.strip()
Strip(s) == RStrip(LStrip(s))

\* s.replace(c, "")
Remove(s, c) == SelectSeq(s, LAMBDA x : x # c)

\* s.count(c)
Count(s, c) == Len(SelectSeq(s, LAMBDA x : x = c))

\* s.startswith(c) for a one-character c
StartsWith(s, c) == s # <<>> /\ s[1] = c

\* len(re.findall(r"\s\s", s)) > 0
HasTwoSpaces(s) ==
    \E k \in 1..(Len(s) - 1) : s[k] \in Whitespace /\ s[k + 1] \in Whitespace

Digit(d) == <<"0", "1", "2", "3", "4", "5", "6", "7", "8", "9">>[d + 1]

RECURSIVE Decimal(_)
\* str(n) for n >= 0
Decimal(n) == IF n < 10 THEN <<Digit(n)>> ELSE Decimal(n \div 10) \o <<Digit(n % 10)>>

\* "{}_{}".format(h, i)
Suffixed(h, i) == h \o <<"_">> \o Decimal(i)

(***************************************************************************)
(* The inputs: tables as lists of lines, and the call.                     *)
(***************************************************************************)
Strings(alphabet, n) == UNION {[1..k -> alphabet] : k \in 0..n}

\* the three-character alphabets: border lines, bar tables, colon headers
Alphabets == {{" ", "a", "-"}, {" ", "a", "|"}, {" ", "a", ":"}, {"a", "-", "+"}}

HeaderTokens == {<<"A">>, <<"A", "_", "2">>}
DataTokens == {<<>>, <<"x", "x">>, <<"x", " ", "y">>}

Pad(s) == s \o [k \in 1..(ColWidth - Len(s)) |-> " "]

RECURSIVE Render(_)
\* the cells left-justified in columns of ColWidth, the last cell not padded
Render(cs) ==
    IF Len(cs) = 1 THEN cs[1] ELSE Pad(Head(cs)) \o Render(Tail(cs))

\* a header and one row of left-justified cells
CellTables ==
    UNION {{<<Render(h), Render(r)>> : h \in [1..n -> HeaderTokens],
                                       r \in [1..n -> DataTokens]} : n \in 1..MaxCols}

\* parse_lines called with the lines, as tests.py calls it
DirectCall == [fn |-> "parse_lines", skip |-> 0]

Calls == {DirectCall} \cup {[fn |-> "parse", skip |-> s] : s \in 0..MaxSkip}

InitInput ==
    \* at most a header and a row over three characters, under every call
    \/ \E a \in Alphabets : \E k \in 0..2 :
         \E t \in [1..k -> Strings(a, MaxLen)] : \E c \in Calls :
            lines = t /\ call = c
    \* three lines over blank and letter, under every call
    \/ \E t \in [1..3 -> Strings({" ", "a"}, MaxLen)] : \E c \in Calls :
            lines = t /\ call = c
    \* a header and a row over blank and letter, long enough for a split
    \/ \E t \in [1..2 -> Strings({" ", "a"}, MaxLenWide)] :
            lines = t /\ call = DirectCall
    \* a header and a row of left-justified cells
    \/ \E t \in CellTables :
            lines = t /\ call = DirectCall

Init ==
    /\ InitInput
    /\ pc = IF call.fn = "parse" THEN "parse" ELSE "sanitize"
    /\ divider = " "
    /\ left_boundaries = <<>>
    /\ right_boundaries = <<>>
    /\ lb_checked = <<>>
    /\ rb_checked = <<>>
    /\ valid_lb = <<>>
    /\ valid_rb = <<>>
    /\ position = 0
    /\ columns = <<>>
    /\ ncolumns = <<>>
    /\ headers = <<>>
    /\ newkeys = <<>>
    /\ bumpable = {}
    /\ bumps = {}
    /\ newheaders = <<>>
    /\ row = 0
    /\ data = <<>>
    /\ err = ""

\* an exception leaves the function: nothing is returned
Raise(what) ==
    /\ pc' = "failed"
    /\ err' = what

(***************************************************************************)
(* parse (lines 24-36): the skip, or the guess of one line to skip.        *)
(***************************************************************************)
Parse ==
    /\ pc = "parse"
    /\ IF call.skip # 0
       THEN /\ lines' = Slice(lines, call.skip, None)
            /\ pc' = "sanitize"
            /\ err' = err
       ELSE IF Len(lines) = 0
       THEN Raise("parse") /\ lines' = lines
       ELSE IF HasTwoSpaces(lines[1])
       THEN /\ lines' = lines
            /\ pc' = "sanitize"
            /\ err' = err
       ELSE IF Len(lines) < 2
       THEN Raise("parse") /\ lines' = lines
       ELSE /\ lines' = IF HasTwoSpaces(lines[2]) THEN Tail(lines) ELSE lines
            /\ pc' = "sanitize"
            /\ err' = err
    /\ UNCHANGED <<call, divider, left_boundaries, right_boundaries, lb_checked,
                   rb_checked, valid_lb, valid_rb, position, columns, ncolumns,
                   headers, newkeys, bumpable, bumps, newheaders, row, data>>

(***************************************************************************)
(* parse_lines, line 42: the lines of nothing but + and - are removed.     *)
(***************************************************************************)
KeepLine(x) == Strip(Remove(Remove(x, "-"), "+")) # <<>>

Sanitize ==
    /\ pc = "sanitize"
    /\ lines' = SelectSeq(lines, KeepLine)
    /\ pc' = "header"
    /\ UNCHANGED <<call, divider, left_boundaries, right_boundaries, lb_checked,
                   rb_checked, valid_lb, valid_rb, position, columns, ncolumns,
                   headers, newkeys, bumpable, bumps, newheaders, row, data, err>>

(***************************************************************************)
(* Lines 46-80: the divider, the header without its colons, the candidate  *)
(* boundaries of the header.                                               *)
(***************************************************************************)
\* lines 46-52
Divider(header) == IF Count(header, "|") > 1 THEN "|" ELSE " "

RECURSIVE SubColon(_)
\* line 59: re.sub(r"(\S):(\S)", r"\1 \2", header), matches taken left to right
\* and never overlapping
SubColon(s) ==
    IF s = <<>> THEN <<>>
    ELSE IF /\ Len(s) >= 3
            /\ s[1] \notin Whitespace
            /\ s[2] = ":"
            /\ s[3] \notin Whitespace
    THEN <<s[1], " ", s[3]>> \o SubColon(SubSeq(s, 4, Len(s)))
    ELSE <<s[1]>> \o SubColon(Tail(s))

\* lb_re is divider then non-divider, rb_re is non-divider then divider
Matches(re, d, c1, c2) ==
    IF re = "lb_re" THEN c1 = d /\ c2 # d ELSE c1 # d /\ c2 = d

RECURSIVE FindIter(_, _, _, _)
\* [x.span()[0] for x in re.finditer(re, s)] from position k on: the matches
\* are two characters long and do not overlap
FindIter(re, d, s, k) ==
    IF k + 1 >= Len(s) THEN <<>>
    ELSE IF Matches(re, d, s[k + 1], s[k + 2])
    THEN <<k>> \o FindIter(re, d, s, k + 2)
    ELSE FindIter(re, d, s, k + 1)

\* lines 61-63
LeftBoundaries(header, d) ==
    LET m == FindIter("lb_re", d, header, 0)
    IN  <<0>> \o [k \in 1..Len(m) |-> m[k] + 1]

\* a variant of RightBoundaries: the start of the match taken as the boundary
RightBoundariesAtMatch(header, d) == FindIter("rb_re", d, header, 0)

\* lines 64-66
RightBoundaries(header, d) ==
    LET m == FindIter("rb_re", d, header, 0)
    IN  [k \in 1..Len(m) |-> m[k] + 1]

Range(s) == {s[k] : k \in 1..Len(s)}

ScanHeader ==
    /\ pc = "header"
    /\ IF Len(lines) = 0
       THEN /\ Raise("header")
            /\ UNCHANGED <<lines, divider, left_boundaries, right_boundaries,
                           lb_checked, rb_checked>>
       ELSE LET d == Divider(lines[1])
                header == SubColon(lines[1])
            IN  /\ divider' = d
                /\ lines' = [lines EXCEPT ![1] = header]
                /\ left_boundaries' = LeftBoundaries(header, d)
                /\ right_boundaries' = RightBoundaries(header, d)
                /\ lb_checked' = [b \in Range(left_boundaries') |-> <<>>]
                /\ rb_checked' = [b \in Range(right_boundaries') |-> <<>>]
                /\ pc' = "validate"
                /\ err' = err
    /\ UNCHANGED <<call, valid_lb, valid_rb, position, columns, ncolumns,
                   headers, newkeys, bumpable, bumps, newheaders, row, data>>

(***************************************************************************)
(* Lines 81-101: every candidate is checked against every data line.       *)
(***************************************************************************)
\* line[k] raises IndexError
OutOfRange(line, k) == k >= Len(line)

\* lines 85-92: the check of left boundary lb on a line raises
LbRaises(line, lb) ==
    IF lb = 0 THEN OutOfRange(line, 0)
    ELSE IF lb > Len(line) THEN FALSE
    ELSE OutOfRange(line, lb)

\* lines 85-92: what is appended to lb_checked[lb]
LbCheck(line, lb, d) ==
    IF lb = 0 THEN line[1] # d
    ELSE IF lb > Len(line) THEN FALSE
    ELSE line[lb + 1] # d /\ line[lb] = d

\* lines 94-99: the check of right boundary rb on a line raises; line[rb] is
\* read only when line[rb - 1] is not the divider
RbRaises(line, rb, d) ==
    IF rb > Len(line) THEN FALSE
    ELSE OutOfRange(line, rb - 1)
           \/ (line[rb] # d /\ OutOfRange(line, rb))

\* lines 94-99: what is appended to rb_checked[rb]
RbCheck(line, rb, d) ==
    IF rb > Len(line) THEN FALSE
    ELSE line[rb] # d /\ line[rb + 1] = d

\* lines 81-83: the data lines the loop does not skip
CheckedLines == SelectSeq(Tail(lines), LAMBDA line : line # <<>>)

All(bools) == \A k \in 1..Len(bools) : bools[k]

\* a variant of Valid: a boundary no data line has checked is not valid
ValidNeedsRow(boundaries, checked) ==
    SelectSeq(boundaries, LAMBDA b : checked[b] # <<>> /\ All(checked[b]))

\* lines 100-101: the keys whose checks all hold, in the order of the keys
Valid(boundaries, checked) == SelectSeq(boundaries, LAMBDA b : All(checked[b]))

Validate ==
    /\ pc = "validate"
    /\ IF \E k \in 1..Len(CheckedLines) :
             \/ \E lb \in DOMAIN lb_checked : LbRaises(CheckedLines[k], lb)
             \/ \E rb \in DOMAIN rb_checked : RbRaises(CheckedLines[k], rb, divider)
       THEN /\ Raise("validate")
            /\ UNCHANGED <<lb_checked, rb_checked, valid_lb, valid_rb>>
       ELSE /\ lb_checked' = [lb \in DOMAIN lb_checked |->
                  [k \in 1..Len(CheckedLines) |-> LbCheck(CheckedLines[k], lb, divider)]]
            /\ rb_checked' = [rb \in DOMAIN rb_checked |->
                  [k \in 1..Len(CheckedLines) |-> RbCheck(CheckedLines[k], rb, divider)]]
            /\ valid_lb' = Valid(left_boundaries, lb_checked')
            /\ valid_rb' = Valid(right_boundaries, rb_checked')
            /\ pc' = "merge"
            /\ err' = err
    /\ UNCHANGED <<call, lines, divider, left_boundaries, right_boundaries,
                   position, columns, ncolumns, headers, newkeys, bumpable,
                   bumps, newheaders, row, data>>

(***************************************************************************)
(* Lines 102-116: the valid boundaries are merged into spans.              *)
(***************************************************************************)
Span(start, end, justification) == <<start, end, justification>>

\* lines 105-113: the boundary the loop takes next
TakeLeft ==
    IF valid_lb # <<>> /\ valid_rb # <<>>
    THEN valid_lb[1] < valid_rb[1]
    ELSE valid_lb # <<>>

\* lines 104-115: one turn of the loop
MergeStep ==
    /\ pc = "merge"
    /\ valid_lb # <<>> \/ valid_rb # <<>>
    /\ LET nxt == IF TakeLeft THEN <<valid_lb[1], "l">> ELSE <<valid_rb[1], "r">>
       IN  /\ valid_lb' = IF TakeLeft THEN Tail(valid_lb) ELSE valid_lb
           /\ valid_rb' = IF TakeLeft THEN valid_rb ELSE Tail(valid_rb)
           /\ columns' = Append(columns, Span(position, nxt[1], nxt[2]))
           /\ position' = nxt[1]
    /\ UNCHANGED <<call, lines, divider, left_boundaries, right_boundaries,
                   lb_checked, rb_checked, ncolumns, headers, newkeys, bumpable,
                   bumps, newheaders, row, data, pc, err>>

\* line 116: the last span, or IndexError when the loop made no span
MergeLast ==
    /\ pc = "merge"
    /\ valid_lb = <<>> /\ valid_rb = <<>>
    /\ IF columns = <<>>
       THEN Raise("merge") /\ UNCHANGED columns
       ELSE /\ columns' = Append(columns, Span(columns[Len(columns)][2], None, "l"))
            /\ pc' = "split"
            /\ err' = err
    /\ UNCHANGED <<call, lines, divider, left_boundaries, right_boundaries,
                   lb_checked, rb_checked, valid_lb, valid_rb, position,
                   ncolumns, headers, newkeys, bumpable, bumps, newheaders,
                   row, data>>

(***************************************************************************)
(* Lines 118-153: a right span with text at its left in every line is      *)
(* split at the first position where every line has the divider.           *)
(***************************************************************************)
\* a variant of SplitLines: the splitter reads the data lines only
SplitLinesData == SelectSeq(Tail(lines), LAMBDA line : Strip(line) # <<>>)

\* lines 126-127, 138-139: the lines the splitter reads
SplitLines == SelectSeq(lines, LAMBDA line : Strip(line) # <<>>)

\* lines 123-130: start_characters
StartCharacters(cs) ==
    IF \E k \in 1..Len(SplitLines) : OutOfRange(SplitLines[k], cs)
    THEN <<FALSE>>
    ELSE [k \in 1..Len(SplitLines) |-> SplitLines[k][cs + 1] # divider]

\* lines 136-140: is_spaces at ncs; the read of a line too short raises
IsSpacesRaises(ncs) == \E k \in 1..Len(SplitLines) : OutOfRange(SplitLines[k], ncs)

IsSpaces(ncs) == [k \in 1..Len(SplitLines) |-> SplitLines[k][ncs + 1] = divider]

RECURSIVE FindSplit(_, _)
\* lines 135-145: the first ncs of range(ncs, ce) where is_spaces all hold
FindSplit(ncs, ce) ==
    IF ncs >= ce THEN [found |-> FALSE, raised |-> FALSE, ncs |-> ncs]
    ELSE IF IsSpacesRaises(ncs) THEN [found |-> FALSE, raised |-> TRUE, ncs |-> ncs]
    ELSE IF All(IsSpaces(ncs)) THEN [found |-> TRUE, raised |-> FALSE, ncs |-> ncs]
    ELSE FindSplit(ncs + 1, ce)

\* a variant of SplitSpan: the right part begins after the divider found
SplitSpanPastDivider(c) ==
    LET cs == c[1]
        ce == c[2]
        f  == FindSplit(cs, ce)
    IN  IF c[3] = "r" /\ All(StartCharacters(cs)) /\ f.found
        THEN <<Span(cs, f.ncs, "l"), Span(f.ncs + 1, ce, "r")>>
        ELSE <<c>>

\* lines 121-152: the spans one span becomes
SplitSpan(c) ==
    LET cs == c[1]
        ce == c[2]
        f  == FindSplit(cs, ce)
    IN  IF c[3] = "r" /\ All(StartCharacters(cs)) /\ f.found
        THEN <<Span(cs, f.ncs, "l"), Span(f.ncs, ce, "r")>>
        ELSE <<c>>

SplitSpanRaises(c) ==
    c[3] = "r" /\ All(StartCharacters(c[1])) /\ FindSplit(c[1], c[2]).raised

RECURSIVE Concat(_)
Concat(ss) == IF ss = <<>> THEN <<>> ELSE Head(ss) \o Concat(Tail(ss))

Split ==
    /\ pc = "split"
    /\ IF \E k \in 1..Len(columns) : SplitSpanRaises(columns[k])
       THEN Raise("split") /\ UNCHANGED ncolumns
       ELSE /\ ncolumns' = Concat([k \in 1..Len(columns) |-> SplitSpan(columns[k])])
            /\ pc' = "dedup"
            /\ err' = err
    /\ UNCHANGED <<call, lines, divider, left_boundaries, right_boundaries,
                   lb_checked, rb_checked, valid_lb, valid_rb, position, columns,
                   headers, newkeys, bumpable, bumps, newheaders, row, data>>

(***************************************************************************)
(* Lines 155-181: the header texts and their keys.                         *)
(***************************************************************************)
\* lines 155-157
Headers == [k \in 1..Len(ncolumns) |->
               Strip(Slice(lines[1], ncolumns[k][1], ncolumns[k][2]))]

RECURSIVE Incr(_, _, _)
\* lines 165-173: the first incr from incr on with [this, incr] not in keys
Incr(this, incr, keys) ==
    IF <<this, incr>> \in Range(keys) THEN Incr(this, incr + 1, keys) ELSE incr

RECURSIVE NewKeys(_, _)
\* lines 161-173: newkeys after the headers from i on, a 1-based index
NewKeys(hs, keys) ==
    IF hs = <<>> THEN keys
    ELSE NewKeys(Tail(hs), Append(keys, <<Head(hs), Incr(Head(hs), 1, keys)>>))

\* lines 162-170: the non-empty texts whose incr went past 1
Bumpable(keys) == {keys[k][1] : k \in {j \in 1..Len(keys) :
                                         keys[j][2] > 1 /\ keys[j][1] # <<>>}}

\* lines 174-178
NewHeaders(keys) ==
    [k \in 1..Len(keys) |->
        IF keys[k][2] = 1 THEN keys[k][1] ELSE Suffixed(keys[k][1], keys[k][2])]

Dedup ==
    /\ pc = "dedup"
    /\ headers' = Headers
    /\ newkeys' = NewKeys(headers', <<>>)
    /\ bumpable' = Bumpable(newkeys')
    /\ bumps' = bumpable'
    /\ newheaders' = NewHeaders(newkeys')
    /\ pc' = "bump"
    /\ UNCHANGED <<call, lines, divider, left_boundaries, right_boundaries,
                   lb_checked, rb_checked, valid_lb, valid_rb, position, columns,
                   ncolumns, row, data, err>>

\* newheaders.index(bump), 1-based here; 0 stands for ValueError
Index(hs, x) ==
    IF \E k \in 1..Len(hs) : hs[k] = x
    THEN CHOOSE k \in 1..Len(hs) : hs[k] = x /\ \A j \in 1..(k - 1) : hs[j] # x
    ELSE 0

\* lines 179-181: one turn of the loop; a set is iterated in no fixed order
Bump ==
    /\ pc = "bump"
    /\ \E bump \in bumps :
          LET idx == Index(newheaders, bump)
          IN  /\ bumps' = bumps \ {bump}
              /\ IF idx = 0
                 THEN Raise("bump") /\ UNCHANGED newheaders
                 ELSE /\ newheaders' =
                            [newheaders EXCEPT ![idx] = Suffixed(newheaders[idx], 1)]
                      /\ UNCHANGED <<pc, err>>
    /\ UNCHANGED <<call, lines, divider, left_boundaries, right_boundaries,
                   lb_checked, rb_checked, valid_lb, valid_rb, position, columns,
                   ncolumns, headers, newkeys, bumpable, row, data>>

(***************************************************************************)
(* Lines 183-199: one record per data line that has a valid pair.          *)
(***************************************************************************)
\* lines 184-187
LineData(line) ==
    [k \in 1..Len(ncolumns) |-> Strip(Slice(line, ncolumns[k][1], ncolumns[k][2]))]

\* lines 189-193: the pairs of zip(newheaders, linedata) that are kept
ValidLineData(line) ==
    LET linedata == LineData(line)
        pairs == [k \in 1..Min(Len(newheaders), Len(linedata)) |->
                     <<newheaders[k], linedata[k]>>]
    IN  SelectSeq(pairs, LAMBDA x : /\ x[1] # <<>>
                                    /\ x[2] # <<>>
                                    /\ ~StartsWith(x[1], divider))

RECURSIVE OrderedDict(_, _)
\* OrderedDict(pairs) added to d: a key seen again keeps its place and takes
\* the new value
OrderedDict(d, pairs) ==
    IF pairs = <<>> THEN d
    ELSE LET p == Head(pairs)
             at == {k \in 1..Len(d) : d[k][1] = p[1]}
         IN  OrderedDict(IF at = {} THEN Append(d, p)
                         ELSE [k \in 1..Len(d) |-> IF k \in at THEN p ELSE d[k]],
                         Tail(pairs))

\* lines 196-197: del d["|"]
DelBar(d) == SelectSeq(d, LAMBDA x : x[1] # <<"|">>)

\* a variant of Row: the record is appended also when it has no pair
RowKeepsEmpty ==
    /\ pc = "bump"
    /\ bumps = {}
    /\ row < Len(lines) - 1
    /\ data' = Append(data, DelBar(OrderedDict(<<>>, ValidLineData(lines[row + 2]))))
    /\ row' = row + 1
    /\ UNCHANGED <<call, lines, divider, left_boundaries, right_boundaries,
                   lb_checked, rb_checked, valid_lb, valid_rb, position, columns,
                   ncolumns, headers, newkeys, bumpable, bumps, newheaders, pc, err>>

\* lines 183-198: one turn of the loop
Row ==
    /\ pc = "bump"
    /\ bumps = {}
    /\ row < Len(lines) - 1
    /\ LET valid_linedata == ValidLineData(lines[row + 2])
       IN  data' = IF valid_linedata # <<>>
                   THEN Append(data, DelBar(OrderedDict(<<>>, valid_linedata)))
                   ELSE data
    /\ row' = row + 1
    /\ UNCHANGED <<call, lines, divider, left_boundaries, right_boundaries,
                   lb_checked, rb_checked, valid_lb, valid_rb, position, columns,
                   ncolumns, headers, newkeys, bumpable, bumps, newheaders, pc, err>>

\* line 199
Return ==
    /\ pc = "bump"
    /\ bumps = {}
    /\ row = Len(lines) - 1
    /\ pc' = "done"
    /\ UNCHANGED <<call, lines, divider, left_boundaries, right_boundaries,
                   lb_checked, rb_checked, valid_lb, valid_rb, position, columns,
                   ncolumns, headers, newkeys, bumpable, bumps, newheaders, row,
                   data, err>>

Next ==
    \/ Parse
    \/ Sanitize
    \/ ScanHeader
    \/ Validate
    \/ MergeStep
    \/ MergeLast
    \/ Split
    \/ Dedup
    \/ Bump
    \/ Row
    \/ Return

Spec == Init /\ [][Next]_vars

(***************************************************************************)
(* The claims.                                                             *)
(***************************************************************************)
\* the places past the splitter, where ncolumns holds the final spans
PastSplit == {"dedup", "bump", "done"}

\* the places past the merge loop, where columns holds the merged spans
PastMerge == {"split"} \cup PastSplit

\* C1: in every table parse_lines accepts, no two of the final keys
\* (newheaders) that are not empty are equal.
C1_KeysUnique ==
    pc = "done" =>
        \A i, j \in 1..Len(newheaders) :
            i # j /\ newheaders[i] # <<>> => newheaders[i] # newheaders[j]

\* the spans tile the line: the first starts at 0, each ends where the next
\* starts, and the last one alone has no end
Tiles(spans) ==
    /\ spans # <<>>
    /\ spans[1][1] = 0
    /\ \A k \in 1..(Len(spans) - 1) :
          spans[k][2] # None /\ spans[k][2] = spans[k + 1][1]
    /\ spans[Len(spans)][2] = None

\* C2: whenever parse_lines has not failed, the spans after the merge and the
\* spans after the splitter tile the line.
C2_SpansTile ==
    /\ pc \in PastMerge => Tiles(columns)
    /\ pc \in PastSplit => Tiles(ncolumns)

\* C2 witness: an accepted table one of whose right spans was split.
C2_Witness ==
    /\ pc = "done"
    /\ Len(ncolumns) > Len(columns)
    /\ Len(ncolumns) >= 4
    /\ data # <<>>

\* where the cells of a line begin: text at position 0, or text after two or
\* more spaces
CellStarts(line) ==
    {k \in 0..(Len(line) - 1) :
        /\ line[k + 1] # " "
        /\ k = 0 \/ (k >= 2 /\ line[k] = " " /\ line[k - 1] = " ")}

\* the cells of a line, each the trimmed text from its start to the next start
Cells(line) ==
    LET starts == CellStarts(line)
        next(k) == IF \E j \in starts : j > k
                   THEN CHOOSE j \in starts : j > k /\ \A i \in starts : i > k => j <= i
                   ELSE None
        n == Cardinality(starts)
        at(i) == CHOOSE k \in starts : Cardinality({j \in starts : j < k}) = i - 1
    IN  [i \in 1..n |-> Strip(Slice(line, at(i), next(at(i))))]

\* a space-divided table whose columns are all left-justified: every line has
\* its cells begin at the positions where the cells of the header begin, two
\* or more spaces before each but the first; the header texts are single
\* words, no two the same
LeftJustified ==
    /\ Len(lines) >= 2
    /\ divider = " "
    /\ "|" \notin Range(lines[1])
    /\ \A k \in 1..Len(lines) :
          /\ 0 \in CellStarts(lines[k])
          /\ CellStarts(lines[k]) = CellStarts(lines[1])
          /\ lines[k][Len(lines[k])] \notin Whitespace
    /\ \A i, j \in 1..Len(Cells(lines[1])) :
          /\ " " \notin Range(Cells(lines[1])[i])
          /\ i # j => Cells(lines[1])[i] # Cells(lines[1])[j]

\* C3: a left-justified space-divided table gives one record per data row,
\* which maps each header text to the whole cell of the row and has no other
\* key; a cell with single spaces inside stays one field.
C3_LeftJustifiedRecords ==
    pc = "done" /\ LeftJustified =>
        data = [k \in 1..(Len(lines) - 1) |->
                  [j \in 1..Len(Cells(lines[1])) |->
                      <<Cells(lines[1])[j], Cells(lines[k + 1])[j]>>]]

\* C4: no key of a record comes from a span whose header text is empty: every
\* key of every record is the key of a span with a header text.
C4_NoKeyOfEmptyHeader ==
    \A r \in 1..Len(data) : \A p \in 1..Len(data[r]) :
        \E k \in 1..Len(headers) :
            headers[k] # <<>> /\ newheaders[k] = data[r][p][1]

\* the key of the reference rule: the text when it occurs once, text_n for
\* its n-th occurrence when it occurs more than once
ReferenceKey(hs, k) ==
    IF Cardinality({j \in 1..Len(hs) : hs[j] = hs[k]}) = 1
    THEN hs[k]
    ELSE Suffixed(hs[k], Cardinality({j \in 1..k : hs[j] = hs[k]}))

\* C5: for header texts none of which is empty, the final keys are those of
\* the reference rule, position by position.
C5_ReferenceKeys ==
    pc = "done" /\ (\A k \in 1..Len(headers) : headers[k] # <<>>) =>
        newheaders = [k \in 1..Len(headers) |-> ReferenceKey(headers, k)]

Record(line) == DelBar(OrderedDict(<<>>, ValidLineData(line)))

\* C7 as claimed: one record per data line left after the sanitizer, in the
\* order of the lines, each from its own line.
C7_RecordPerLine ==
    pc = "done" => data = [k \in 1..(Len(lines) - 1) |-> Record(lines[k + 1])]

\* C7 as amended: the records are, in the order of the lines, those of the
\* data lines that have a valid pair, each from its own line; a data line
\* with no valid pair has no record.
C7_RecordPerLineWithPair ==
    pc = "done" =>
        LET kept == SelectSeq(Tail(lines), LAMBDA line : ValidLineData(line) # <<>>)
        IN  data = [k \in 1..Len(kept) |-> Record(kept[k])]

\* C7 witness: parse returns two different records for two data lines.
C7_Witness ==
    /\ pc = "done"
    /\ call.fn = "parse"
    /\ Len(lines) = 3
    /\ Len(data) = 2
    /\ data[1] # data[2]

\* the rule of a left boundary on a line, a position out of range failing it
LbRule(line, lb) ==
    /\ lb < Len(line)
    /\ line[lb + 1] # divider
    /\ lb = 0 \/ line[lb] = divider

\* the rule of a right boundary on a line, a position out of range failing it
RbRule(line, rb) ==
    /\ rb < Len(line)
    /\ line[rb] # divider
    /\ line[rb + 1] = divider

\* C8: a candidate is accepted iff its rule holds on every data line, and a
\* data line too short for the position makes it invalid without an error.
C8_ShortLineInvalidates ==
    /\ ~(pc = "failed" /\ err = "validate")
    /\ pc \in {"merge"} \cup PastMerge =>
          /\ \A lb \in DOMAIN lb_checked :
                All(lb_checked[lb]) <=>
                    \A k \in 2..Len(lines) : LbRule(lines[k], lb)
          /\ \A rb \in DOMAIN rb_checked :
                All(rb_checked[rb]) <=>
                    \A k \in 2..Len(lines) : RbRule(lines[k], rb)

\* the character of a line at a position is the divider
DividerAt(line, k) == k < Len(line) /\ line[k + 1] = divider

\* the character of a line at a position is text
TextAt(line, k) == k < Len(line) /\ line[k + 1] # divider

\* every line of ls has the divider at offset o
SplitsAt(ls, o) == \A k \in 1..Len(ls) : DividerAt(ls[k], o)

\* a right span is split iff every line of ls has text at its start and some
\* offset strictly inside has the divider in every line of ls
IsSplit(ls, c) ==
    /\ c[3] = "r"
    /\ \A k \in 1..Len(ls) : TextAt(ls[k], c[1])
    /\ \E o \in (c[1] + 1)..(c[2] - 1) : SplitsAt(ls, o)

\* the spans of cols, those that are split replaced by a left span up to the
\* first such offset and a right span from it
SplitBy(ls, cols) ==
    LET offset(c) == CHOOSE o \in (c[1] + 1)..(c[2] - 1) :
                        /\ SplitsAt(ls, o)
                        /\ \A q \in (c[1] + 1)..(o - 1) : ~SplitsAt(ls, q)
    IN  Concat([k \in 1..Len(cols) |->
                   IF IsSplit(ls, cols[k])
                   THEN <<Span(cols[k][1], offset(cols[k]), "l"),
                          Span(offset(cols[k]), cols[k][2], "r")>>
                   ELSE <<cols[k]>>])

\* C9 as claimed: whether and where a right span is split is decided by the
\* data lines alone (stated of the tables that have a data line).
C9_SplitByDataLines ==
    pc \in PastSplit /\ Len(lines) >= 2 => ncolumns = SplitBy(Tail(lines), columns)

\* C9 as amended: whether and where a right span is split is decided by all
\* the lines, the header line among them; the other spans pass unchanged.
C9_SplitByAllLines ==
    pc \in PastSplit => ncolumns = SplitBy(lines, columns)

\* C9 witness: a span is split where the header has its first divider, after
\* the first offset at which the data lines have theirs.
C9_Witness ==
    /\ pc = "done"
    /\ Len(lines) >= 2
    /\ ncolumns # columns
    /\ ncolumns # SplitBy(Tail(lines), columns)
    /\ IsSplit(Tail(lines), columns[2])

\* C10: no position is a left and a right candidate; the merge loop never
\* compares equal positions and takes boundaries of increasing position; a
\* merged span with an end is not empty, but for (0, 0) at the front, there
\* exactly when 0 is a valid left boundary; the spans a split makes are not
\* empty.
C10_IncreasingBoundaries ==
    /\ Range(left_boundaries) \cap Range(right_boundaries) = {}
    /\ pc = "merge" /\ valid_lb # <<>> /\ valid_rb # <<>> => valid_lb[1] # valid_rb[1]
    /\ \A k \in 1..(Len(columns) - 1) :
          columns[k + 1][2] # None => columns[k][2] < columns[k + 1][2]
    /\ \A k \in 1..Len(columns) :
          columns[k][2] # None =>
              \/ columns[k][1] < columns[k][2]
              \/ k = 1 /\ columns[k] = Span(0, 0, "l")
    /\ pc \in PastMerge =>
          (columns[1] = Span(0, 0, "l") <=> All(lb_checked[0]))
    /\ pc \in PastSplit =>
          \A k \in 1..Len(ncolumns) :
              ncolumns[k] \notin Range(columns) =>
                  ncolumns[k][2] # None /\ ncolumns[k][1] < ncolumns[k][2]

\* C10 witness: an accepted table with data lines, the empty span at the
\* front and a left and a right boundary merged after it.
C10_Witness ==
    /\ pc = "done"
    /\ data # <<>>
    /\ columns[1] = Span(0, 0, "l")
    /\ \E k \in 2..Len(columns) : columns[k][3] = "r"
    /\ \E k \in 2..Len(columns) : columns[k][3] = "l" /\ columns[k][2] # None
====
